---- MODULE Spec2Model ----
\* Verification model of the backtest of TrendFollowingStrategy
\* (src/server/core/strategy.py) run by BacktestEngine (src/server/core/engine.py).
\* One bar of cerebro.run(runonce=False) is: the data feed advances and the
\* broker (BackBroker, configured in engine.py) checks and executes the order
\* submitted on the previous bar at this bar's open; the broker's order and
\* trade notifications are delivered to notify_order / notify_trade; then the
\* strategy's next() runs on the bar's close.
\* Money is kept in units of 1/MoneyScale so that the commission is exact.
EXTENDS Integers, Sequences, FiniteSets, TLC

\* ---------------------------------------------------------------- bounds
MaxBars == 3
MaxPrice == 3
MaxATR == 2

\* ------------------------------------------------------- program values
MoneyScale == 10000
\* commission=0.0001 (engine.py:103): 0.0001 * MoneyScale per unit of price
CommNum == 1

Prices == 1..MaxPrice
ATRs == 0..MaxATR
Crosses == {-1, 0, 1}
\* strategy parameters of a run (strategy.py params; values admitted by the API)
\* <<atr_multiplier, risk_per_trade in percent, contract_multiplier, initial_cash>>
RunParams == {<<2, 2, 1, 10>>, <<1, 100, 1, 1>>, <<1, 100, 2, 10>>, <<2, 100, 1, 3>>}

NoOrder == 0

VARIABLES
  bar,          \* len(self): index of the current bar
  pc,           \* "next": notifications delivered, next() to run; "broker": waiting for the next bar
  cl, atr, cross,       \* current bar: close, ATR[0], crossover[0]
  atr_multiplier, risk_pct, contract_multiplier,  \* params (risk_per_trade = risk_pct/100)
  initial_cash, \* BacktestEngine.run initial_cash, in 1/MoneyScale
  cash,         \* broker cash, in 1/MoneyScale
  pos, posPrice,        \* broker position size (signed) and price
  order,        \* self.order: NoOrder or the ref of the order
  bOrder,       \* broker's submitted order: <<>> or <<[ref, size, cprice, cbar]>>
  nextRef,
  notifs,       \* pending notifications for the strategy
  stop_price, stopNone, \* self.stop_price (stopNone: it is None)
  entryReason, exitReason, \* current_trade_entry_reason / current_trade_exit_reason
  trade_history,        \* self.trade_history
  tradeOpen,    \* the Trade object of the last opened trade: [price, size, baropen]
  bar_executed,
  tr_values,    \* broker value seen by the TimeReturn/DrawDown analyzers at each bar
  gPending, gOpen, gClose, \* reasons of the decisions that submitted the pending order,
                \* opened the current trade and closed the last one
  gCloses,      \* number of executions that closed a position
  taTotal, taWon, taLost, \* TradeAnalyzer rets: total.total, won.total, lost.total
  lastFill,     \* last execution: [ref, cbar, cprice, bar, price, size, comm, cashBefore, cashAfter]
  rreq,         \* a backtest request (POST /backtest, BacktestEngine.run inputs)
  rout,         \* its outcome
  cvIn,         \* initial_cash and the broker value seen by TimeReturn at each bar
  cvOut,        \* the equity curve built from TimeReturn by BacktestEngine.run
  oBase,        \* initial_params of StrategyOptimizer.optimize
  oKeys,        \* keys_to_mutate of a trial
  oTrial,       \* trial_params of the trial
  xMode,        \* optimize(parallel=...): "parallel" or "sequential"
  xN,           \* max_trials
  xRet,         \* per trial: the return_rate its backtest earns on the data (ErrorRet: error result)
  xDone,        \* trials whose worker has finished, in completion order
  xColl,        \* results taken by the as_completed loop
  xBest,        \* best_return, best_params (0: initial_params), best_result is not None
  xPhase,       \* "start", "collect", "draining" (executor exit), "seq", "returned", "raised"
  xStarted,     \* sequential: trials the loop has started
  pMode,        \* optimize(parallel=...) of the parameter-object model
  pN,           \* max_trials
  pStore,       \* the parameter dicts alive in optimize and its pool workers, by object id
  pBase,        \* the contents initial_params had when optimize was called
  pObj,         \* per generated trial: the id of its trial_params dict
  pGen,         \* per generated trial: trial_params as generation left it
  pRun,         \* per generated trial: "pending", "submitted", "failed", "done"
  pPhase        \* "gen", "run", "raised", "returned"

btVars == <<bar, pc, cl, atr, cross, atr_multiplier, risk_pct, contract_multiplier, initial_cash,
          cash, pos, posPrice, order, bOrder, nextRef, notifs, stop_price, stopNone,
          entryReason, exitReason, trade_history, tradeOpen, bar_executed, lastFill,
          taTotal, taWon, taLost, tr_values, gPending, gOpen, gClose, gCloses>>
xVars == <<xMode, xN, xRet, xDone, xColl, xBest, xPhase, xStarted>>
pVars == <<pMode, pN, pStore, pBase, pObj, pGen, pRun, pPhase>>
execVars == <<xVars, pVars>>
auxVars == <<rreq, rout, cvIn, cvOut, oBase, oKeys, oTrial, execVars>>
vars == <<btVars, auxVars>>

Abs(x) == IF x < 0 THEN -x ELSE x
Max(a, b) == IF a >= b THEN a ELSE b
Min(a, b) == IF a <= b THEN a ELSE b
\* Python int() of a/b for b > 0: truncation toward zero
TruncDiv(a, b) == IF a >= 0 THEN a \div b ELSE -((-a) \div b)

NoFill == [ref |-> 0, cbar |-> 0, cprice |-> 0, bar |-> 0, price |-> 0, size |-> 0,
           comm |-> 0, cashBefore |-> 0, cashAfter |-> 0]
NoTrade == [price |-> 0, size |-> 0, baropen |-> 0, comm |-> 0]
GhostIdle == gPending = [er |-> "unset", xr |-> "unset"] /\ gOpen = [er |-> "none", size |-> 0]
             /\ gClose = "none" /\ gCloses = 0

\* ----------------------------------------------- requests of a backtest run
\* strategy_code of the request: none; a GeneratedStrategy subclass of
\* bt.Strategy; code that does not compile; code defining no GeneratedStrategy;
\* GeneratedStrategy bound to a falsy object (0, None, ""); bound to an object
\* that is not a strategy class (42, a plain function)
StrategyCodes == {"none", "valid", "syntax_error", "no_class", "falsy_class", "not_strategy"}
\* rows of the DataFrame returned by fetch_futures_data (-1: None)
DataLens == {-1, 0, 14, 15, 34, 35}
\* strategy_params['slow_period'] (0: key absent)
SlowPeriods == {0, 10, 30}
\* strategy_params['contract_multiplier']: absent, an int, a float, a non-numeric string
CmParams == {"absent", "int", "float", "text"}
NoRequest == [code |-> "none", df |-> -1, slow |-> 0, cm |-> "absent", runFault |-> FALSE]
NoOutcome == [kind |-> "none", error |-> "none", required |-> 0, available |-> 0,
              strategy |-> "none", fetched |-> FALSE]
NoCurveIn == [init |-> 0, vals |-> <<>>]
NoCurveOut == [kind |-> "none", points |-> <<>>]
CurveIdle == cvIn = NoCurveIn /\ cvOut = NoCurveOut
NoTrial == <<>>
OptIdle == oBase = NoTrial /\ oKeys = {} /\ oTrial = NoTrial
\* best_return = -inf, best_params = initial_params.copy(), best_result = None
NegInf == -1000
InitialBest == [ret |-> NegInf, idx |-> 0, result |-> FALSE]
XIdle == /\ xMode = "parallel" /\ xN = 0 /\ xRet = <<>> /\ xDone = <<>> /\ xColl = 0
         /\ xBest = InitialBest /\ xPhase = "start" /\ xStarted = 0
\* the parameter-object model before optimize is called
ParamIdle == /\ pMode = "parallel" /\ pN = 0 /\ pStore = <<>> /\ pBase = <<>>
             /\ pObj = <<>> /\ pGen = <<>> /\ pRun = <<>> /\ pPhase = "gen"
ExecIdle == XIdle /\ ParamIdle
AuxIdle == rreq = NoRequest /\ rout = NoOutcome /\ CurveIdle /\ OptIdle /\ ExecIdle

Init ==
  /\ bar = 1
  /\ pc = "next"
  /\ cl \in Prices /\ atr \in ATRs /\ cross \in Crosses
  /\ \E rp \in RunParams :
       /\ atr_multiplier = rp[1]
       /\ risk_pct = rp[2]
       /\ contract_multiplier = rp[3]
       /\ cash = rp[4] * MoneyScale
       /\ initial_cash = rp[4] * MoneyScale
  /\ pos = 0 /\ posPrice = 0
  /\ order = NoOrder
  /\ bOrder = <<>>
  /\ nextRef = 1
  /\ notifs = <<>>
  /\ stop_price = 0 /\ stopNone = TRUE
  /\ entryReason = "unset" /\ exitReason = "unset"
  /\ trade_history = <<>>
  /\ tradeOpen = NoTrade
  /\ bar_executed = 0
  /\ lastFill = NoFill
  /\ taTotal = 0 /\ taWon = 0 /\ taLost = 0 /\ tr_values = <<>> /\ GhostIdle
  /\ AuxIdle

\* exact rationals <<numerator, denominator>>, denominator > 0
RECURSIVE GCD(_, _)
GCD(a, b) == IF b = 0 THEN a ELSE GCD(b, a % b)
Frac(n, d) == LET g == GCD(Abs(n), Abs(d))
                  sg == IF d < 0 THEN -1 ELSE 1
              IN <<sg * (n \div g), sg * (d \div g)>>
FInt(k) == <<k, 1>>
FMul(x, y) == Frac(x[1] * y[1], x[2] * y[2])
FAdd(x, y) == Frac(x[1] * y[2] + y[1] * x[2], x[2] * y[2])
\* a price or an amount is a whole number or, after an averaging of prices,
\* a fraction <<numerator, denominator>> (printed as a tuple)
IsFraction(x) == SubSeq(ToString(x), 1, 1) = "<"
ToF(x) == IF IsFraction(x) THEN x ELSE FInt(x)
Norm(f) == IF f[2] = 1 THEN f[1] ELSE f

\* ------------------------------------------------------------ the broker
\* BackBroker commission (setcommission(commission=0.0001), percentage,
\* stock-like): abs(size) * price * commission, in 1/MoneyScale
Commission(s, p) == Abs(s) * p * CommNum

\* Position.update(size, price): the part of an order that closes the
\* position and the part that opens one
Opened(ps, s) == IF ps = 0 \/ ((ps > 0) = (s > 0)) THEN s
                 ELSE IF Abs(s) <= Abs(ps) THEN 0 ELSE s + ps
Closed(ps, s) == IF ps = 0 \/ ((ps > 0) = (s > 0)) THEN 0
                 ELSE IF Abs(s) <= Abs(ps) THEN s ELSE -ps

\* realised profit of the closed part (CommInfoBase.profitandloss)
ClosedPnl(ps, pp, s, p, cm) ==
  IF IsFraction(pp)
  THEN Norm(FMul(FInt((-Closed(ps, s)) * cm), FAdd(FInt(p), FMul(FInt(-1), pp))))
  ELSE (-Closed(ps, s)) * (p - pp) * cm

\* cash after BackBroker._execute of an order of size s at price p
\* (shortcash=True: a stock-like short credits its value, a long debits it)
ExecCash(cashv, ps, pp, s, p, cm) ==
  LET cl0 == Closed(ps, s)
      op0 == Opened(ps, s)
      afterClose == IF cl0 = 0 THEN cashv
                    ELSE cashv + (-cl0) * pp * MoneyScale
                         + ClosedPnl(ps, pp, s, p, cm) * MoneyScale - Commission(cl0, p)
      \* the same, exactly, when the position price or the cash is a fraction
      afterCloseQ == IF cl0 = 0 THEN ToF(cashv)
                     ELSE FAdd(FAdd(ToF(cashv), FMul(FInt((-cl0) * MoneyScale), ToF(pp))),
                               FAdd(FMul(ToF(ClosedPnl(ps, pp, s, p, cm)), FInt(MoneyScale)),
                                    FInt(-Commission(cl0, p))))
  IN IF IsFraction(pp) \/ IsFraction(cashv)
     THEN Norm(IF op0 = 0 THEN afterCloseQ
               ELSE FAdd(afterCloseQ, FInt(-(op0 * p * MoneyScale) - Commission(op0, p))))
     ELSE IF op0 = 0 THEN afterClose
     ELSE afterClose - op0 * p * MoneyScale - Commission(op0, p)

\* position price after the execution; an increase of a position averages
\* (price * oldsize + size * price) / size in float, kept here exactly: a
\* whole number, else the reduced fraction <<numerator, denominator>>
NewPosPrice(ps, pp, s, p) ==
  IF ps + s = 0 THEN 0
  ELSE IF Opened(ps, s) = 0 THEN pp
  ELSE IF Closed(ps, s) # 0 \/ ps = 0 THEN p
  ELSE LET fpp == IF IsFraction(pp) THEN pp ELSE FInt(pp)
           avg == Frac(ps * fpp[1] + s * p * fpp[2], (ps + s) * fpp[2])
       IN IF avg[2] = 1 THEN avg[1] ELSE avg

\* broker.get_value(): cash + position value at the close (stock-like, shortcash)
BrokerValue == cash + pos * cl * MoneyScale

OrderN(st, r) == [kind |-> "order", status |-> st, ref |-> r, isclosed |-> FALSE,
                  price |-> 0, pnl |-> 0, size |-> 0, baropen |-> 0, barclose |-> 0, comm |-> 0]
TradeN(cl0, pr, pn, sz, bo, bc, cm0) ==
  [kind |-> "trade", status |-> "", ref |-> 0, isclosed |-> cl0,
   price |-> pr, pnl |-> pn, size |-> sz, baropen |-> bo, barclose |-> bc, comm |-> cm0]

\* One bar of cerebro._runnext: the data feed loads the next bar, then
\* broker.next() checks the submitted order against the cash at its created
\* price (check_submitted) and executes a market order at the bar's open.
\* (maxb: bars of the data feed; prices, atrs: the values a bar may carry)
BrokerStep(maxb, prices, atrs) ==
  /\ pc = "broker"
  /\ bar < maxb
  /\ \E no \in prices, nc \in prices, na \in atrs, nx \in Crosses :
       /\ bar' = bar + 1 /\ cl' = nc /\ atr' = na /\ cross' = nx
       /\ pc' = "next"
       /\ IF bOrder = <<>>
          THEN /\ notifs' = <<>>
               /\ UNCHANGED <<cash, pos, posPrice, bOrder, tradeOpen, lastFill, gOpen, gClose, gCloses>>
          ELSE LET o == bOrder[1]
                   \* check_submitted: pseudo-execution at order.created.price with pnl = 0
                   chk == ExecCash(cash, pos, o.cprice, o.size, o.cprice, contract_multiplier)
                   real == ExecCash(cash, pos, posPrice, o.size, no, contract_multiplier)
                   opn == Opened(pos, o.size)
                   cls == Closed(pos, o.size)
               IN /\ bOrder' = <<>>
                  /\ IF chk < 0
                     THEN /\ notifs' = <<OrderN("Submitted", o.ref), OrderN("Margin", o.ref)>>
                          /\ UNCHANGED <<cash, pos, posPrice, tradeOpen, lastFill, gOpen, gClose, gCloses>>
                     ELSE IF opn # 0 /\ real < 0
                     THEN /\ notifs' = <<OrderN("Submitted", o.ref), OrderN("Accepted", o.ref),
                                         OrderN("Margin", o.ref)>>
                          /\ UNCHANGED <<cash, pos, posPrice, tradeOpen, lastFill, gOpen, gClose, gCloses>>
                     ELSE /\ cash' = real
                          /\ pos' = pos + o.size
                          /\ posPrice' = NewPosPrice(pos, posPrice, o.size, no)
                          /\ lastFill' = [ref |-> o.ref, cbar |-> o.cbar, cprice |-> o.cprice,
                                          bar |-> bar + 1, price |-> no, size |-> o.size,
                                          comm |-> Commission(o.size, no),
                                          cashBefore |-> cash, cashAfter |-> real]
                          /\ tradeOpen' = IF opn # 0 /\ (cls # 0 \/ pos = 0)
                                          THEN [price |-> no, size |-> opn, baropen |-> bar + 1,
                                                comm |-> Commission(opn, no)]
                                          ELSE tradeOpen
                          /\ gOpen' = IF opn # 0 THEN [er |-> gPending.er, size |-> opn] ELSE gOpen
                          /\ gClose' = IF cls # 0 THEN gPending.xr ELSE IF opn # 0 THEN "none" ELSE gClose
                          /\ gCloses' = IF cls # 0 THEN gCloses + 1 ELSE gCloses
                          /\ notifs' = <<OrderN("Submitted", o.ref), OrderN("Accepted", o.ref),
                                         OrderN("Completed", o.ref)>>
                                       \o (IF cls # 0
                                           THEN <<TradeN(TRUE, tradeOpen.price,
                                                   ClosedPnl(pos, posPrice, o.size, no, contract_multiplier),
                                                   tradeOpen.size, tradeOpen.baropen, bar + 1,
                                                   tradeOpen.comm + Commission(cls, no))>>
                                           ELSE <<>>)
                                       \o (IF opn # 0
                                           THEN <<TradeN(FALSE, no, 0, opn, bar + 1, 0, Commission(opn, no))>>
                                           ELSE <<>>)
  /\ UNCHANGED auxVars
  /\ UNCHANGED <<atr_multiplier, risk_pct, contract_multiplier, initial_cash, order, nextRef,
                 stop_price, stopNone, entryReason, exitReason, trade_history, bar_executed,
                 taTotal, taWon, taLost, tr_values, gPending>>
BrokerNext == BrokerStep(MaxBars, Prices, ATRs)

\* ------------------------------------------------------ notifications
\* variant: self.order is reset only when the order completed
NotifyOrder_CompletedOnly(n) ==
  IF n.status \in {"Submitted", "Accepted"}
  THEN UNCHANGED <<order, bar_executed>>
  ELSE /\ bar_executed' = IF n.status = "Completed" THEN bar ELSE bar_executed
       /\ order' = IF n.status = "Completed" THEN NoOrder ELSE order

\* TrendFollowingStrategy.notify_order
NotifyOrder(n) ==
  IF n.status \in {"Submitted", "Accepted"}
  THEN UNCHANGED <<order, bar_executed>>
  ELSE /\ bar_executed' = IF n.status = "Completed" THEN bar ELSE bar_executed
       /\ order' = NoOrder

\* Python x / y when the quotient is exact
ExactDiv(a, b) == IF b < 0 THEN (-a) \div (-b) ELSE a \div b

\* getattr(self, 'current_trade_entry_reason', '趋势信号触发') and the exit one
EntryReasonOf(r) == IF r = "unset" THEN "trend-signal-default" ELSE r
ExitReasonOf(r) == IF r = "unset" THEN "reversal-or-stop-default" ELSE r

\* variant: direction taken from the position when notify_trade runs
TradeRecord_PosSide(n) ==
  LET tsize == n.size
      exit_price == IF tsize # 0
                    THEN n.price + ExactDiv(n.pnl, tsize * contract_multiplier)
                    ELSE n.price
  IN [direction |-> IF pos > 0 THEN "long" ELSE "short",
      size |-> Abs(tsize),
      entry_price |-> n.price,
      exit_price |-> exit_price,
      pnl |-> n.pnl,
      net_pnl |-> n.pnl * MoneyScale - n.comm,
      commission |-> n.comm,
      bars |-> n.barclose - n.baropen,
      entry_reason |-> EntryReasonOf(entryReason),
      exit_reason |-> ExitReasonOf(exitReason)]

\* the record notify_trade appends for a closed trade; pnl is in units
\* of price, net_pnl (trade.pnlcomm) and commission in 1/MoneyScale; trade_size is the
\* size of the first event of trade.history (the opening order)
TradeRecord(n) ==
  LET tsize == n.size
      exit_price == IF tsize # 0
                    THEN n.price + ExactDiv(n.pnl, tsize * contract_multiplier)
                    ELSE n.price
  IN [direction |-> IF tsize > 0 THEN "long" ELSE "short",
      size |-> Abs(tsize),
      entry_price |-> n.price,
      exit_price |-> exit_price,
      pnl |-> n.pnl,
      net_pnl |-> n.pnl * MoneyScale - n.comm,
      commission |-> n.comm,
      bars |-> n.barclose - n.baropen,
      entry_reason |-> EntryReasonOf(entryReason),
      exit_reason |-> ExitReasonOf(exitReason)]

\* variant: without the `if not trade.isclosed: return` guard
NotifyTrade_Every(n) == trade_history' = Append(trade_history, TradeRecord(n))

\* bt.analyzers.TradeAnalyzer.notify_trade: a just opened trade counts in
\* total.total; a closed one is won when pnlcomm >= 0, lost otherwise
TradeAnalyzerNotify(n) ==
  IF ~n.isclosed
  THEN taTotal' = taTotal + 1 /\ UNCHANGED <<taWon, taLost>>
  ELSE IF n.pnl * MoneyScale - n.comm >= 0
       THEN taWon' = taWon + 1 /\ UNCHANGED <<taTotal, taLost>>
       ELSE taLost' = taLost + 1 /\ UNCHANGED <<taTotal, taWon>>

\* TrendFollowingStrategy.notify_trade
NotifyTrade(n) ==
  IF ~n.isclosed
  THEN UNCHANGED trade_history
  ELSE trade_history' = Append(trade_history, TradeRecord(n))

\* Strategy._notify: order notifications, then trade notifications, one at a time
Notify ==
  /\ pc = "next"
  /\ notifs # <<>>
  /\ notifs' = Tail(notifs)
  /\ UNCHANGED auxVars
  /\ IF Head(notifs).kind = "order"
     THEN NotifyOrder(Head(notifs)) /\ UNCHANGED <<trade_history, taTotal, taWon, taLost>>
     ELSE /\ NotifyTrade(Head(notifs)) /\ TradeAnalyzerNotify(Head(notifs))
          /\ UNCHANGED <<order, bar_executed>>
  /\ UNCHANGED <<tr_values, gPending, gOpen, gClose, gCloses>>
  /\ UNCHANGED <<bar, pc, cl, atr, cross, atr_multiplier, risk_pct, contract_multiplier, initial_cash,
                 cash, pos, posPrice, bOrder, nextRef, stop_price, stopNone,
                 entryReason, exitReason, tradeOpen, lastFill>>

\* ------------------------------------------------------------ next()
\* truthiness of self.stop_price (None and 0.0 are falsy)
StopTruthy == ~stopNone /\ stop_price # 0

\* variant: without the max_affordable clamp
LongEntrySize_NoClamp ==
  LET stop_dist == atr * atr_multiplier
      risk_per_unit == stop_dist * contract_multiplier
      size0 == IF risk_per_unit > 0
               THEN TruncDiv(BrokerValue * risk_pct, MoneyScale * 100 * risk_per_unit)
               ELSE 0
      max_affordable == TruncDiv(cash, MoneyScale * cl * contract_multiplier)
  IN IF size0 = 0 /\ max_affordable >= 1 THEN 1 ELSE size0

\* long entry (crossover > 0 while flat): the order size
LongEntrySize ==
  LET stop_dist == atr * atr_multiplier
      risk_per_unit == stop_dist * contract_multiplier
      size0 == IF risk_per_unit > 0
               THEN TruncDiv(BrokerValue * risk_pct, MoneyScale * 100 * risk_per_unit)
               ELSE 0
      max_affordable == TruncDiv(cash, MoneyScale * cl * contract_multiplier)
      size1 == IF size0 = 0 /\ max_affordable >= 1 THEN 1 ELSE size0
  IN IF size1 > max_affordable THEN max_affordable ELSE size1

\* variant: the short size clamped to max_affordable like the long one
ShortEntrySize_Clamped ==
  LET stop_dist == atr * atr_multiplier
      risk_per_unit == stop_dist * contract_multiplier
      size0 == IF risk_per_unit > 0
               THEN TruncDiv(BrokerValue * risk_pct, MoneyScale * 100 * risk_per_unit)
               ELSE 0
      max_affordable == TruncDiv(cash, MoneyScale * cl * contract_multiplier)
      size1 == IF size0 = 0 THEN 1 ELSE size0
  IN IF size1 > max_affordable THEN max_affordable ELSE size1

\* short entry (crossover < 0 while flat): the order size
ShortEntrySize ==
  LET stop_dist == atr * atr_multiplier
      risk_per_unit == stop_dist * contract_multiplier
      size0 == IF risk_per_unit > 0
               THEN TruncDiv(BrokerValue * risk_pct, MoneyScale * 100 * risk_per_unit)
               ELSE 0
  IN IF size0 = 0 THEN 1 ELSE size0

\* trailing stops of an open position
LongTrailStop ==
  LET new_stop_price == cl - atr * atr_multiplier
  IN IF StopTruthy /\ new_stop_price > stop_price THEN new_stop_price ELSE stop_price
ShortTrailStop ==
  LET new_stop_price == cl + atr * atr_multiplier
  IN IF StopTruthy /\ new_stop_price < stop_price THEN new_stop_price ELSE stop_price

\* "close < stop_price" / "close > stop_price" with stop_price None raises
\* TypeError out of next() (and out of cerebro.run)
StopNoneRaise == [raised |-> "TypeError"]

\* decisions of next() on the current bar: the order it submits (size 0:
\* none, close(): -pos) and the new stop_price and reasons
NoDecision == [size |-> 0, stop |-> stop_price, stopNone |-> stopNone,
               er |-> entryReason, xr |-> exitReason]

\* not self.position (strategy.py:226-303)
FlatDecision ==
  IF cross > 0
  THEN [size |-> IF LongEntrySize > 0 THEN LongEntrySize ELSE 0,
        stop |-> cl - atr * atr_multiplier, stopNone |-> FALSE,
        er |-> IF LongEntrySize > 0 THEN "golden-cross-entry" ELSE entryReason,
        xr |-> IF LongEntrySize > 0 THEN "" ELSE exitReason]
  ELSE IF cross < 0
  THEN [size |-> IF ShortEntrySize > 0 THEN -ShortEntrySize ELSE 0,
        stop |-> cl + atr * atr_multiplier, stopNone |-> FALSE,
        er |-> IF ShortEntrySize > 0 THEN "death-cross-short-entry" ELSE entryReason,
        xr |-> IF ShortEntrySize > 0 THEN "" ELSE exitReason]
  ELSE NoDecision

\* variant: the death-cross exit reverses into a short (sell 2 * position)
LongDecision_Reverse ==
  IF cross < 0
  THEN [size |-> -2 * pos, stop |-> stop_price, stopNone |-> stopNone,
        er |-> entryReason, xr |-> "death-cross-exit"]
  ELSE IF stopNone THEN StopNoneRaise
  ELSE [size |-> IF cl < LongTrailStop THEN -pos ELSE 0,
        stop |-> LongTrailStop, stopNone |-> stopNone,
        er |-> entryReason,
        xr |-> IF cl < LongTrailStop THEN "long-stop-exit" ELSE exitReason]

\* variant: the stop is trailed and checked before the death-cross exit
LongDecision_TrailFirst ==
  IF stopNone THEN StopNoneRaise
  ELSE IF cl < LongTrailStop
  THEN [size |-> -pos, stop |-> LongTrailStop, stopNone |-> stopNone,
        er |-> entryReason, xr |-> "long-stop-exit"]
  ELSE IF cross < 0
  THEN [size |-> -pos, stop |-> LongTrailStop, stopNone |-> stopNone,
        er |-> entryReason, xr |-> "death-cross-exit"]
  ELSE [size |-> 0, stop |-> LongTrailStop, stopNone |-> stopNone,
        er |-> entryReason, xr |-> exitReason]

\* variant: the long stop exit fires on close <= stop_price
LongDecision_StopLe ==
  IF cross < 0
  THEN [size |-> -pos, stop |-> stop_price, stopNone |-> stopNone,
        er |-> entryReason, xr |-> "death-cross-exit"]
  ELSE IF stopNone THEN StopNoneRaise
  ELSE [size |-> IF cl <= LongTrailStop THEN -pos ELSE 0,
        stop |-> LongTrailStop, stopNone |-> stopNone,
        er |-> entryReason,
        xr |-> IF cl <= LongTrailStop THEN "long-stop-exit" ELSE exitReason]

\* self.position.size > 0 (strategy.py:308-327)
LongDecision ==
  IF cross < 0
  THEN [size |-> -pos, stop |-> stop_price, stopNone |-> stopNone,
        er |-> entryReason, xr |-> "death-cross-exit"]
  ELSE IF stopNone THEN StopNoneRaise
  ELSE [size |-> IF cl < LongTrailStop THEN -pos ELSE 0,
        stop |-> LongTrailStop, stopNone |-> stopNone,
        er |-> entryReason,
        xr |-> IF cl < LongTrailStop THEN "long-stop-exit" ELSE exitReason]

\* self.position.size < 0 (strategy.py:330-352)
ShortDecision ==
  IF cross > 0
  THEN [size |-> -pos, stop |-> stop_price, stopNone |-> stopNone,
        er |-> entryReason, xr |-> "golden-cross-exit"]
  ELSE IF stopNone THEN StopNoneRaise
  ELSE [size |-> IF cl > ShortTrailStop THEN -pos ELSE 0,
        stop |-> ShortTrailStop, stopNone |-> stopNone,
        er |-> entryReason,
        xr |-> IF cl > ShortTrailStop THEN "short-stop-exit" ELSE exitReason]

\* strategy.py:207-352 (if self.order: return)
Decision ==
  IF order # NoOrder THEN NoDecision
  ELSE IF pos = 0 THEN FlatDecision
  ELSE IF pos > 0 THEN LongDecision
  ELSE ShortDecision

\* TrendFollowingStrategy.next, with the submission of its order
\* (buy/sell/close -> broker.submit)
StrategyNext ==
  /\ pc = "next"
  /\ notifs = <<>>
  /\ UNCHANGED auxVars
  /\ IF "raised" \in DOMAIN Decision
     THEN \* the exception leaves next() and cerebro.run: the run stops on this bar
          /\ pc' = "raised"
          /\ UNCHANGED <<bar, cl, atr, cross, atr_multiplier, risk_pct, contract_multiplier,
                         initial_cash, cash, pos, posPrice, order, bOrder, nextRef, notifs,
                         stop_price, stopNone, entryReason, exitReason, trade_history, tradeOpen,
                         bar_executed, lastFill, taTotal, taWon, taLost, tr_values, gPending,
                         gOpen, gClose, gCloses>>
     ELSE
       /\ pc' = "broker"
       /\ stop_price' = Decision.stop
       /\ stopNone' = Decision.stopNone
       /\ entryReason' = Decision.er
       /\ exitReason' = Decision.xr
       /\ IF Decision.size # 0
          THEN /\ order' = nextRef
               /\ bOrder' = <<[ref |-> nextRef, size |-> Decision.size, cprice |-> cl, cbar |-> bar]>>
               /\ nextRef' = nextRef + 1
               /\ gPending' = [er |-> Decision.er, xr |-> Decision.xr]
          ELSE UNCHANGED <<order, bOrder, nextRef, gPending>>
       /\ UNCHANGED <<bar, cl, atr, cross, atr_multiplier, risk_pct, contract_multiplier, initial_cash,
                      cash, pos, posPrice, notifs, trade_history, tradeOpen, bar_executed, lastFill,
                      taTotal, taWon, taLost, gOpen, gClose, gCloses>>
       \* analyzers' next after the strategy's: the value of the bar (next() only submits orders)
       /\ tr_values' = Append(tr_values, BrokerValue)

Next == BrokerNext \/ Notify \/ StrategyNext

Spec == Init /\ [][Next]_vars

\* longer runs: LongBars bars with closes and opens in LongPrices, ATR 1
LongBars == 6
LongPrices == {1, 2}
LongInit == Init /\ cl \in LongPrices /\ atr = 1 /\ atr_multiplier = 1
LongNext == BrokerStep(LongBars, LongPrices, {1}) \/ Notify \/ StrategyNext
LongSpec == LongInit /\ [][LongNext]_vars

\* ------------------------------------------------ BacktestEngine.run and the router
\* strategy_params.get('slow_period', 30)
SlowOf(req) == IF req.slow = 0 THEN 30 ELSE req.slow
\* variant: min_length one bar short
MinLength_Short(req) == SlowOf(req) + 4

\* min_length = slow_period + 5
MinLength(req) == SlowOf(req) + 5

\* engine.py:34-40: df None or empty, then the length check
DataCheck(req) ==
  IF req.df <= 0 THEN "NoData"
  ELSE IF req.df < MinLength(req) THEN "InsufficientData"
  ELSE "ok"

\* BacktestEngine.run(strategy_class=sc): sc is "none" (argument not given),
\* "custom" (a strategy class), "falsy" (a falsy object) or "nonstrategy"
EngineRun(req, sc) ==
  LET strat == IF sc \in {"custom", "nonstrategy"} THEN sc ELSE "builtin"
      chk == DataCheck(req)
  IN IF chk # "ok"
     THEN [kind |-> "error", error |-> chk,
           required |-> IF chk = "InsufficientData" THEN MinLength(req) ELSE 0,
           available |-> IF chk = "InsufficientData" THEN req.df ELSE 0,
           strategy |-> "none", fetched |-> TRUE]
     \* int(strategy_params['contract_multiplier']) outside any try
     ELSE IF req.cm = "text"
     THEN [kind |-> "exception", error |-> "ValueError", required |-> 0, available |-> 0,
           strategy |-> "none", fetched |-> TRUE]
     \* cerebro.run inside try/except: instantiating a non-strategy or any fault
     ELSE IF req.runFault \/ strat = "nonstrategy"
     THEN [kind |-> "error", error |-> "ExecutionFailed", required |-> 0, available |-> 0,
           strategy |-> strat, fetched |-> TRUE]
     ELSE [kind |-> "result", error |-> "none", required |-> 0, available |-> 0,
           strategy |-> strat, fetched |-> TRUE]

\* run_backtest (api/routers/backtest.py:27-59): exec of strategy_code, then engine.run
RunBacktestOutcome(req) ==
  IF req.code \in {"syntax_error", "no_class"}
  THEN [kind |-> "error", error |-> "InvalidStrategy", required |-> 0, available |-> 0,
        strategy |-> "none", fetched |-> FALSE]
  ELSE EngineRun(req, CASE req.code = "none" -> "none"
                        [] req.code = "valid" -> "custom"
                        [] req.code = "falsy_class" -> "falsy"
                        [] req.code = "not_strategy" -> "nonstrategy")

Requests == [code : StrategyCodes, df : DataLens, slow : SlowPeriods, cm : CmParams,
             runFault : BOOLEAN]

\* the backtest variables at rest while a request is handled
BtIdle ==
  /\ bar = 1 /\ pc = "next" /\ cl = 1 /\ atr = 0 /\ cross = 0
  /\ atr_multiplier = 2 /\ risk_pct = 2 /\ contract_multiplier = 1
  /\ initial_cash = 10 * MoneyScale /\ cash = 10 * MoneyScale
  /\ pos = 0 /\ posPrice = 0 /\ order = NoOrder /\ bOrder = <<>> /\ nextRef = 1
  /\ notifs = <<>> /\ stop_price = 0 /\ stopNone = TRUE
  /\ entryReason = "unset" /\ exitReason = "unset" /\ trade_history = <<>>
  /\ tradeOpen = NoTrade /\ bar_executed = 0 /\ lastFill = NoFill
  /\ taTotal = 0 /\ taWon = 0 /\ taLost = 0 /\ tr_values = <<>> /\ GhostIdle

RunInit == BtIdle /\ rreq \in Requests /\ rout = NoOutcome /\ CurveIdle /\ OptIdle /\ ExecIdle

\* handling of one POST /backtest request
RunBacktest ==
  /\ rout = NoOutcome
  /\ rout' = RunBacktestOutcome(rreq)
  /\ UNCHANGED <<btVars, rreq, cvIn, cvOut, oBase, oKeys, oTrial, execVars>>

RunNext == RunBacktest
RunSpec == RunInit /\ [][RunNext]_vars

\* ------------------------------------------------ equity curve of a run
\* series of broker values seen by the TimeReturn analyzer (one per bar, the
\* first being initial_cash: no order can fill before the second bar)
MaxCurveLen == 4
MaxCurveValue == 3
CurveCash == 1..2
CurveValues == -1..MaxCurveValue

\* TimeReturn.next: rets[dtkey] = value / value_start - 1.0, value_start being
\* the value of the previous bar (broker value at start for the first bar);
\* a zero value_start raises ZeroDivisionError out of cerebro.run
RECURSIVE TimeReturns(_, _)
TimeReturns(last, vals) ==
  IF vals = <<>> THEN [ok |-> TRUE, rets |-> <<>>]
  ELSE IF last = 0 THEN [ok |-> FALSE, rets |-> <<>>]
  ELSE LET r == FAdd(Frac(Head(vals), last), FInt(-1))
           rest == TimeReturns(Head(vals), Tail(vals))
       IN [ok |-> rest.ok, rets |-> <<r>> \o rest.rets]

\* the loop over timereturns.items(): cumulative *= (1 + ret),
\* value = initial_cash * cumulative
RECURSIVE CurvePoints(_, _, _)
CurvePoints(init, cum, rets) ==
  IF rets = <<>> THEN <<>>
  ELSE LET c == FMul(cum, FAdd(FInt(1), Head(rets)))
       IN <<[value |-> FMul(FInt(init), c), ret |-> Head(rets)]>>
            \o CurvePoints(init, c, Tail(rets))

\* a raise inside cerebro.run is caught: {"error": "Backtest execution failed: ..."}
EquityCurveOutcome(in) ==
  LET tr == TimeReturns(in.init, in.vals)
  IN IF tr.ok THEN [kind |-> "result", points |-> CurvePoints(in.init, FInt(1), tr.rets)]
     ELSE [kind |-> "error", points |-> <<>>]

CurveInit ==
  /\ BtIdle /\ rreq = NoRequest /\ rout = NoOutcome /\ cvOut = NoCurveOut /\ OptIdle /\ ExecIdle
  /\ \E c \in CurveCash, n \in 1..MaxCurveLen :
       \E rest \in [1..(n - 1) -> CurveValues] :
          cvIn = [init |-> c, vals |-> <<c>> \o rest]

\* cerebro.run with the analyzers, then the equity-curve extraction
ComputeEquityCurve ==
  /\ cvOut = NoCurveOut
  /\ cvOut' = EquityCurveOutcome(cvIn)
  /\ UNCHANGED <<btVars, rreq, rout, cvIn, oBase, oKeys, oTrial, execVars>>

CurveNext == ComputeEquityCurve
CurveSpec == CurveInit /\ [][CurveNext]_vars

\* ------------------------------------------- indicators on a close series
\* TrendFollowingStrategy.params fast_period / slow_period (SMA, use_expma False)
FastPeriod == 10
SlowPeriod == 30

RECURSIVE SumRange(_, _, _)
SumRange(s, a, b) == IF a > b THEN 0 ELSE s[a] + SumRange(s, a + 1, b)
\* SMA(fast)[i] - SMA(slow)[i], scaled by fast * slow > 0 (same sign, same zeros)
SmaDiff(s, i) == SumRange(s, i - FastPeriod + 1, i) * SlowPeriod
                 - SumRange(s, i - SlowPeriod + 1, i) * FastPeriod
\* NonZeroDifference: seeded with the first difference, then keeps the last
\* non-zero one
RECURSIVE Nzd(_, _)
Nzd(s, i) == IF i = SlowPeriod THEN SmaDiff(s, i)
             ELSE IF SmaDiff(s, i) # 0 THEN SmaDiff(s, i) ELSE Nzd(s, i - 1)
\* variant: a tie after a non-positive difference counts as an upward cross
CrossOverAt_Ge(s) ==
  LET i == Len(s)
  IN (IF Nzd(s, i - 1) <= 0 /\ SmaDiff(s, i) >= 0 THEN 1 ELSE 0)
     - (IF Nzd(s, i - 1) > 0 /\ SmaDiff(s, i) < 0 THEN 1 ELSE 0)
\* CrossOver(sma_fast, sma_slow)[0] on closes s[1..i] (i > slow_period):
\* CrossUp = nzd(-1) < 0 and fast > slow, CrossDown = nzd(-1) > 0 and fast < slow
CrossOverAt(s) ==
  LET i == Len(s)
  IN (IF Nzd(s, i - 1) < 0 /\ SmaDiff(s, i) > 0 THEN 1 ELSE 0)
     - (IF Nzd(s, i - 1) > 0 /\ SmaDiff(s, i) < 0 THEN 1 ELSE 0)

\* ------------------------------------------------ metrics of the run
\* the signs SharpeRatio's sharperatio can have, as the engine reports it: the
\* average excess return (riskfreerate 0) over the population stddev, both in
\* float; a zero stddev raises ZeroDivisionError, the analyzer yields None and
\* the engine 0. rets are the exact returns <<a, b>>. A zero return comes from
\* two equal broker values (v / v - 1.0 is 0.0); a single return has stddev 0.
\* Otherwise each return a / b is scaled by SharpeScale(rets) =
\* 2^30 / n / max |a| (so that no product or sum leaves 2^30) and floored
\* (ScaledRet); a scale of 0 decides nothing. The exact scaled sum lies in [Q, Q + n) for Q the sum of the
\* floored values, while float rounding moves it by far less than 1, so the
\* sign is decided only when Q >= 1 or Q + n <= 0, and any sign is possible in
\* between. The stddev can be 0 in float only when all scaled returns are
\* within 1 of each other.
SharpeScale(rets) ==
  (2^30 \div Len(rets)) \div Max(1, CHOOSE m \in {Abs(rets[i][1]) : i \in 1..Len(rets)} :
                                    \A i \in 1..Len(rets) : Abs(rets[i][1]) <= m)
ScaledRet(r, sc) == (r[1] * sc) \div r[2]
RECURSIVE SumScaled(_, _)
SumScaled(rets, sc) ==
  IF rets = <<>> THEN 0 ELSE ScaledRet(Head(rets), sc) + SumScaled(Tail(rets), sc)
SharpeSigns(rets) ==
  IF Len(rets) <= 1 \/ \A i \in 1..Len(rets) : rets[i] = FInt(0) THEN {0}
  ELSE LET sc == SharpeScale(rets)
           q == SumScaled(rets, sc)
           n == Len(rets)
           signs == IF sc = 0 THEN {-1, 0, 1}
                    ELSE IF q >= 1 THEN {1} ELSE IF q + n <= 0 THEN {-1} ELSE {-1, 0, 1}
           nearEqual == \A i, j \in 1..n : Abs(ScaledRet(rets[i], sc) - ScaledRet(rets[j], sc)) <= 1
       IN signs \cup (IF nearEqual THEN {0} ELSE {})
RECURSIVE MaxPrefix(_, _)
MaxPrefix(vals, t) == IF t = 1 THEN vals[1] ELSE Max(vals[t], MaxPrefix(vals, t - 1))
\* DrawDown: at each bar 100 * (peak - value) / peak; max.drawdown is their
\* maximum. A zero peak raises ZeroDivisionError out of cerebro.run: the
\* sequence ends with that bar.
DrawDownAt(vals, t) ==
  LET pk == MaxPrefix(vals, t)
  IN IF pk = 0 THEN "ZeroDivisionError" ELSE Frac(100 * (pk - vals[t]), pk)
DrawDowns(vals) ==
  LET errs == {t \in 1..Len(vals) : MaxPrefix(vals, t) = 0}
      n == IF errs = {} THEN Len(vals) ELSE CHOOSE t \in errs : \A u \in errs : t <= u
  IN [t \in 1..n |-> DrawDownAt(vals, t)]

\* ------------------------------------- a run on a constant-price series
\* every close (and open, high, low) equal: ATR 0 and both SMAs equal the price
ConstCloses(c, n) == [i \in 1..(SlowPeriod + n) |-> c]
\* params of the request (atr_multiplier, risk_pct, contract_multiplier, initial_cash)
ConstParams == [am : {1, 2}, rk : {1, 2, 100}, cm : {1, 2}, ic : {1, 3, 10}]

ConstInit ==
  /\ bar = 1
  /\ pc = "next"
  /\ cl \in Prices /\ atr = 0
  /\ cross = CrossOverAt(ConstCloses(cl, 1))
  /\ \E rp \in ConstParams :
       /\ atr_multiplier = rp.am
       /\ risk_pct = rp.rk
       /\ contract_multiplier = rp.cm
       /\ cash = rp.ic * MoneyScale
       /\ initial_cash = rp.ic * MoneyScale
  /\ pos = 0 /\ posPrice = 0
  /\ order = NoOrder
  /\ bOrder = <<>>
  /\ nextRef = 1
  /\ notifs = <<>>
  /\ stop_price = 0 /\ stopNone = TRUE
  /\ entryReason = "unset" /\ exitReason = "unset"
  /\ trade_history = <<>>
  /\ tradeOpen = NoTrade
  /\ bar_executed = 0
  /\ lastFill = NoFill
  /\ taTotal = 0 /\ taWon = 0 /\ taLost = 0 /\ tr_values = <<>> /\ GhostIdle
  /\ AuxIdle

\* the next bar of the constant series
ConstBar ==
  /\ BrokerNext
  /\ cl' = cl /\ atr' = 0
  /\ cross' = CrossOverAt(ConstCloses(cl, bar + 1))

\* Notify is left out: no order is ever submitted, so nothing is ever pending
ConstNext == ConstBar \/ StrategyNext
ConstSpec == ConstInit /\ [][ConstNext]_vars

\* ------------------------------------------------------------ scenario C
\* a bullish crossover on the first bar while flat, no crossover afterwards,
\* and the close of the second bar below the trailing stop of the long
ScInit == Init /\ cross = 1
ScBar ==
  /\ BrokerNext
  /\ cross' = 0
  /\ bar = 1 => cl' < LongTrailStop'
ScNext == ScBar \/ Notify \/ StrategyNext
ScSpec == ScInit /\ [][ScNext]_vars

\* ------------------------------------------ optimizer candidate generation
ParamKeys == {"fast_period", "slow_period", "atr_period", "atr_multiplier", "risk_per_trade"}
\* param_ranges (atr_multiplier in tenths, risk_per_trade in hundredths)
ParamRanges ==
  [k \in ParamKeys |->
     CASE k = "fast_period" -> {5 + 2 * i : i \in 0..12}
       [] k = "slow_period" -> {20 + 5 * i : i \in 0..15}
       [] k = "atr_period" -> {10, 14, 20, 30}
       [] k = "atr_multiplier" -> {10 + 5 * i : i \in 0..6}
       [] k = "risk_per_trade" -> {1, 2, 3, 5}]
\* strategy_params of a request: fast_period / slow_period absent (0) or given,
\* the other keys at their defaults
BaseFast == {0, 11, 40}
BaseSlow == {0, 8, 30, 60}
MkBase(f, sl) ==
  LET dom == {"atr_period", "atr_multiplier", "risk_per_trade"}
             \cup (IF f > 0 THEN {"fast_period"} ELSE {})
             \cup (IF sl > 0 THEN {"slow_period"} ELSE {})
  IN [k \in dom |-> CASE k = "fast_period" -> f
                      [] k = "slow_period" -> sl
                      [] k = "atr_period" -> 14
                      [] k = "atr_multiplier" -> 20
                      [] k = "risk_per_trade" -> 2]
\* the values random.choice may give the keys of keys_to_mutate
Pick(keys, k) == IF k \in keys THEN ParamRanges[k] ELSE {0}
\* variant: no repair
Repair_None(p) == p
\* Constraint: fast < slow, applied when both keys are present
Repair(p) ==
  IF "fast_period" \in DOMAIN p /\ "slow_period" \in DOMAIN p
     /\ p["fast_period"] >= p["slow_period"]
  THEN [p EXCEPT !["slow_period"] = p["fast_period"] + 5]
  ELSE p

OptInit ==
  /\ BtIdle /\ rreq = NoRequest /\ rout = NoOutcome /\ CurveIdle /\ ExecIdle
  /\ oBase \in {MkBase(f, sl) : f \in BaseFast, sl \in BaseSlow}
  /\ oKeys = {} /\ oTrial = NoTrial

\* one iteration of the trial-generation loop of StrategyOptimizer.optimize
OptGenerate ==
  /\ oTrial = NoTrial
  /\ \E keys \in {ks \in SUBSET ParamKeys : Cardinality(ks) \in 1..3} :
     \E vf \in Pick(keys, "fast_period"), vs \in Pick(keys, "slow_period"),
        va \in Pick(keys, "atr_period"), vm \in Pick(keys, "atr_multiplier"),
        vr \in Pick(keys, "risk_per_trade") :
       LET chosen == [fast_period |-> vf, slow_period |-> vs, atr_period |-> va,
                      atr_multiplier |-> vm, risk_per_trade |-> vr]
           mutated == [k \in DOMAIN oBase \cup keys |->
                         IF k \in keys THEN chosen[k] ELSE oBase[k]]
       IN /\ oKeys' = keys
          /\ oTrial' = Repair(mutated)
  /\ UNCHANGED <<btVars, rreq, rout, cvIn, cvOut, oBase, execVars>>

OptNext == OptGenerate
OptSpec == OptInit /\ [][OptNext]_vars

\* ---------------------------------------------------------------- optimizer execution
\* StrategyOptimizer.optimize after trial generation: the parallel as_completed
\* loop under ProcessPoolExecutor, and the sequential fallback loop.
MaxTrials == 3
\* target_return passed by the backtest router
Target == 20
\* return_rate a trial earns when its backtest runs: NegInf for an "error" result
TrialRets == {NegInf, 10, 30}
\* parameter names of BacktestEngine.run
EngineRunParams == {"symbol", "period", "strategy_params", "start_date", "end_date",
                    "initial_cash", "strategy_class"}
\* names bound by the call engine.run(...) in _run_backtest_wrapper
WrapperKwargs == {"symbol", "period", "strategy_params", "start_date", "end_date",
                  "initial_cash", "asset_type"}
\* names bound by engine.run(symbol, period, params, start_date, end_date,
\* initial_cash, asset_type=asset_type) in the sequential loop
SeqKwargs == {"symbol", "period", "strategy_params", "start_date", "end_date",
              "initial_cash", "asset_type"}
\* length of each trials tuple
TrialArgsLen == 7
\* names on the left of the unpacking in _run_backtest_wrapper
WrapperUnpackLen == 7
\* names on the left of "_, _, params, _, _, _ = args"
SeqUnpackLen == 6
\* variant: the wrapper returns the return_rate without the result
WrapperOutcome_NoResult(r) == [kind |-> "ok", ret |-> r, result |-> FALSE]
\* what future.result() gives for a trial whose backtest would earn r
WrapperOutcome(r) ==
  IF TrialArgsLen # WrapperUnpackLen THEN [kind |-> "raise", exc |-> "ValueError"]
  ELSE IF ~(WrapperKwargs \subseteq EngineRunParams) THEN [kind |-> "raise", exc |-> "TypeError"]
  ELSE IF r = NegInf THEN [kind |-> "ok", ret |-> NegInf, result |-> FALSE]
  ELSE [kind |-> "ok", ret |-> r, result |-> TRUE]
\* what one iteration of the sequential loop gets for a trial whose backtest would earn r
SeqOutcome(r) ==
  IF TrialArgsLen # SeqUnpackLen THEN [kind |-> "raise", exc |-> "ValueError"]
  ELSE IF ~(SeqKwargs \subseteq EngineRunParams) THEN [kind |-> "raise", exc |-> "TypeError"]
  ELSE IF r = NegInf THEN [kind |-> "error"]
  ELSE [kind |-> "ok", ret |-> r, result |-> TRUE]
\* if return_rate > best_return: best_return, best_result, best_params = ...
BestAfter(b, i, o) ==
  IF o.ret > b.ret THEN [ret |-> o.ret, idx |-> i, result |-> o.result] ELSE b
Range(sq) == {sq[k] : k \in DOMAIN sq}

ExecInit ==
  /\ BtIdle /\ rreq = NoRequest /\ rout = NoOutcome /\ CurveIdle /\ OptIdle
  /\ xMode \in {"parallel", "sequential"}
  /\ xN \in 0..MaxTrials
  /\ xRet \in [1..xN -> TrialRets]
  /\ xDone = <<>> /\ xColl = 0 /\ xBest = InitialBest /\ xPhase = "start" /\ xStarted = 0
  /\ ParamIdle

ExecFrame == UNCHANGED <<btVars, rreq, rout, cvIn, cvOut, oBase, oKeys, oTrial, xMode, xN, xRet, pVars>>

\* if parallel: executor.submit for every trial; else: engine = BacktestEngine()
ExecStart ==
  /\ xPhase = "start"
  /\ xPhase' = IF xMode = "parallel" THEN "collect" ELSE "seq"
  /\ UNCHANGED <<xDone, xColl, xBest, xStarted>>
  /\ ExecFrame

\* a pool worker finishes _run_backtest_wrapper for a dispatched trial
WorkerFinish ==
  /\ xMode = "parallel" /\ xPhase \in {"collect", "draining"}
  /\ \E i \in 1..xN : i \notin Range(xDone) /\ xDone' = Append(xDone, i)
  /\ UNCHANGED <<xColl, xBest, xPhase, xStarted>>
  /\ ExecFrame

\* one iteration of "for i, future in enumerate(as_completed(futures))"
Collect ==
  /\ xPhase = "collect" /\ xColl < Len(xDone)
  /\ LET i == xDone[xColl + 1]
         o == WrapperOutcome(xRet[i])
         b == IF o.kind = "ok" THEN BestAfter(xBest, i, o) ELSE xBest
     IN /\ xColl' = xColl + 1
        /\ xBest' = b
        /\ xPhase' = IF o.kind = "ok" /\ b.ret > Target THEN "draining" ELSE "collect"
  /\ UNCHANGED <<xDone, xStarted>>
  /\ ExecFrame

\* as_completed is exhausted: the for loop ends
CollectExhausted ==
  /\ xPhase = "collect" /\ xColl = xN
  /\ xPhase' = "draining"
  /\ UNCHANGED <<xDone, xColl, xBest, xStarted>>
  /\ ExecFrame

\* leaving "with ProcessPoolExecutor()": shutdown(wait=True), then return
Shutdown ==
  /\ xPhase = "draining" /\ Len(xDone) = xN
  /\ xPhase' = "returned"
  /\ UNCHANGED <<xDone, xColl, xBest, xStarted>>
  /\ ExecFrame

\* one iteration of "for i, args in enumerate(trials)" in the sequential loop
SeqTrial ==
  /\ xPhase = "seq" /\ xStarted < xN
  /\ LET i == xStarted + 1
         o == SeqOutcome(xRet[i])
         b == IF o.kind = "ok" THEN BestAfter(xBest, i, o) ELSE xBest
     IN /\ xStarted' = i
        /\ xBest' = b
        /\ xPhase' = IF o.kind = "raise" THEN "raised"
                     ELSE IF o.kind = "ok" /\ b.ret > Target THEN "returned"
                     ELSE "seq"
  /\ UNCHANGED <<xDone, xColl>>
  /\ ExecFrame

\* the sequential loop runs out of trials: return
SeqEnd ==
  /\ xPhase = "seq" /\ xStarted = xN
  /\ xPhase' = "returned"
  /\ UNCHANGED <<xDone, xColl, xBest, xStarted>>
  /\ ExecFrame

ExecNext == ExecStart \/ WorkerFinish \/ Collect \/ CollectExhausted \/ Shutdown \/ SeqTrial \/ SeqEnd
ExecSpec == ExecInit /\ [][ExecNext]_vars


\* ================================================================ claims
\* a step in which next() runs
NextStep == pc = "next" /\ pc' = "broker"
\* a step that submits a new order
NewOrder == Len(bOrder') = 1 /\ (bOrder = <<>> \/ bOrder'[1].ref # bOrder[1].ref)
\* a step in which the broker executes an order
NewFill == lastFill'.ref # lastFill.ref
\* a step that appends to the trade ledger
TradeAppended == Len(trade_history') # Len(trade_history)

\* C1: at most one position is open; it only changes Flat->Long, Flat->Short,
\* Long->Flat or Short->Flat (never Long<->Short, never grows), and an order
\* submitted while a position is open only closes it.
C1_OnePosition ==
  [][ /\ (pos' # pos => (pos = 0 \/ pos' = 0))
      /\ (NewOrder /\ pos # 0 => bOrder'[1].size = -pos) ]_vars
C1_Witness == Len(trade_history) >= 1

\* orders submitted and not yet resolved by notify_order
UnresolvedRefs ==
  {bOrder[i].ref : i \in 1..Len(bOrder)}
  \cup {notifs[i].ref : i \in {j \in 1..Len(notifs) :
          notifs[j].kind = "order" /\ notifs[j].status \in {"Completed", "Margin"}}}

\* C2: at most one order is in flight; self.order is set exactly while it is
\* unresolved; while it is set, next() submits nothing and decides nothing.
C2_OneOrderInFlight ==
  /\ [] /\ Cardinality(UnresolvedRefs) <= 1
        /\ (order # NoOrder => UnresolvedRefs = {order})
        /\ (UnresolvedRefs # {} => order # NoOrder)
  /\ [][ NextStep /\ order # NoOrder =>
           UNCHANGED <<bOrder, order, stop_price, stopNone, entryReason, exitReason>> ]_vars
C2_Witness == order # NoOrder /\ pc = "next" /\ notifs # <<>>

\* C3: while a Long stays open its stop_price never decreases and a Short's
\* never increases, the trail being stop = max(stop, close - ATR*mult) for a
\* Long and stop = min(stop, close + ATR*mult) for a Short.
C3_TrailingStop ==
  [][ /\ (pos > 0 /\ pos' > 0 => stop_price' >= stop_price)
      /\ (pos < 0 /\ pos' < 0 => stop_price' <= stop_price)
      /\ (NextStep /\ pos > 0 /\ cross >= 0 =>
            stop_price' = Max(stop_price, cl - atr * atr_multiplier))
      /\ (NextStep /\ pos < 0 /\ cross <= 0 =>
            stop_price' = Min(stop_price, cl + atr * atr_multiplier)) ]_vars

\* C4: every entry order's size is a non-negative integer not above
\* max_affordable = floor(cash / (close * contract_multiplier)) at the entry bar.
C4_EntrySizeAffordable ==
  [][ NewOrder /\ pos = 0 =>
        Abs(bOrder'[1].size) <= cash \div (MoneyScale * cl * contract_multiplier) ]_vars

\* C5: long entry sizing while Flat on crossover = +1, as stated with floor:
\* stop = close - ATR*mult; size = floor(equity*risk/(stop_dist*cm)) (0 if the
\* denominator is 0); 1 if that is 0 and max_affordable >= 1; min with
\* max_affordable; an order of that size exactly when it is positive.
C5_LongEntrySizing ==
  [][ NextStep /\ pos = 0 /\ cross > 0 =>
        LET stop_distance == atr * atr_multiplier
            risk_per_unit == stop_distance * contract_multiplier
            sz0 == IF risk_per_unit > 0
                   THEN (BrokerValue * risk_pct) \div (MoneyScale * 100 * risk_per_unit)
                   ELSE 0
            max_affordable == cash \div (MoneyScale * cl * contract_multiplier)
            sz1 == IF sz0 = 0 /\ max_affordable >= 1 THEN 1 ELSE sz0
            sz == Min(sz1, max_affordable)
        IN /\ stop_price' = cl - stop_distance
           /\ (sz > 0 => NewOrder /\ bOrder'[1].size = sz)
           /\ (sz <= 0 => ~NewOrder) ]_vars
C5_Witness == pos = 0 /\ Len(bOrder) = 1 /\ bOrder[1].size > 1

\* C6 (as stated): a short entry on crossover = -1 while Flat sets
\* stop = close + ATR*mult and always submits a sell order.
C6_ShortAlwaysPlaced ==
  [][ NextStep /\ pos = 0 /\ cross < 0 =>
        /\ stop_price' = cl + atr * atr_multiplier
        /\ NewOrder /\ bOrder'[1].size < 0 ]_vars

\* C6 (amended): the short size is int(equity*risk/(stop_dist*cm)) truncated
\* toward zero (0 if the denominator is 0), replaced by 1 when it is 0 without
\* any max_affordable check; a sell of that size is submitted exactly when it
\* is positive, hence always when equity >= 0.
C6_ShortEntry ==
  [][ NextStep /\ pos = 0 /\ cross < 0 =>
        LET stop_distance == atr * atr_multiplier
            risk_per_unit == stop_distance * contract_multiplier
            sz0 == IF risk_per_unit > 0
                   THEN TruncDiv(BrokerValue * risk_pct, MoneyScale * 100 * risk_per_unit)
                   ELSE 0
            sz == IF sz0 = 0 THEN 1 ELSE sz0
        IN /\ stop_price' = cl + stop_distance
           /\ (sz > 0 => NewOrder /\ bOrder'[1].size = -sz)
           /\ (sz <= 0 => ~NewOrder)
           /\ (BrokerValue >= 0 => NewOrder) ]_vars
C6_Witness == pos = 0 /\ Len(bOrder) = 1 /\ bOrder[1].size < 0 /\ cash < MoneyScale * cl

\* C7: a Long on crossover = -1 (a Short on crossover = +1) is closed by the
\* signal exit, with no stop update that bar.
C7_SignalExitFirst ==
  [][ /\ (NextStep /\ pos > 0 /\ cross < 0 =>
            NewOrder /\ bOrder'[1].size = -pos /\ stop_price' = stop_price
            /\ exitReason' = "death-cross-exit")
      /\ (NextStep /\ pos < 0 /\ cross > 0 =>
            NewOrder /\ bOrder'[1].size = -pos /\ stop_price' = stop_price
            /\ exitReason' = "golden-cross-exit") ]_vars
C7_Witness == pos # 0 /\ Len(bOrder) = 1 /\ exitReason \in {"death-cross-exit", "golden-cross-exit"}

\* C8: for a Long with crossover # -1 a close is submitted exactly when
\* close < the updated stop_price; for a Short with crossover # +1 exactly
\* when close > the updated stop_price.
C8_StopExit ==
  [][ /\ (NextStep /\ pos > 0 /\ cross >= 0 =>
            (NewOrder <=> cl < stop_price') /\ (NewOrder => bOrder'[1].size = -pos))
      /\ (NextStep /\ pos < 0 /\ cross <= 0 =>
            (NewOrder <=> cl > stop_price') /\ (NewOrder => bOrder'[1].size = -pos)) ]_vars
C8_Witness == pos # 0 /\ Len(bOrder) = 1 /\ exitReason \in {"long-stop-exit", "short-stop-exit"}

\* C9 (as stated): closing appends exactly one Trade, the position is Flat and
\* stop_price is cleared.
C9_TradeOnClose ==
  [][ TradeAppended =>
        Len(trade_history') = Len(trade_history) + 1 /\ pos' = 0 /\ stopNone' ]_vars

\* C9 (amended): every execution that closes a position leaves it Flat, and
\* once its notifications are delivered exactly one Trade has been appended
\* for it (records = closing executions), with the entry fill price, the exit
\* fill price, the reasons and the bars held; stop_price keeps its value (it
\* is not cleared).
C9_TradeRecord ==
  /\ [](notifs = <<>> => Len(trade_history) = gCloses)
  /\ [][gCloses' = gCloses + 1 => pos' = 0]_vars
  /\ [][ TradeAppended =>
        LET r == trade_history'[Len(trade_history')]
        IN /\ Len(trade_history') = Len(trade_history) + 1
           /\ pos = 0 /\ pos' = 0
           /\ r.entry_price = tradeOpen.price
           /\ r.exit_price = lastFill.price
           /\ r.size = Abs(lastFill.size)
           /\ r.bars = lastFill.bar - tradeOpen.baropen
           /\ r.exit_reason = ExitReasonOf(exitReason)
           /\ r.entry_reason = EntryReasonOf(entryReason)
           /\ stop_price' = stop_price /\ ~stopNone' ]_vars
C9_Witness == Len(trade_history) = 1 /\ pos = 0 /\ notifs = <<>>
              /\ trade_history[1].exit_reason \in {"long-stop-exit", "short-stop-exit"}

\* C10 (as stated): an order decided on bar t fills at bar t's close in the
\* same step, with commission = notional * rate (notional = size*price*cm).
C10_FillAtDecidingClose ==
  [][ NewFill =>
        /\ lastFill'.bar = lastFill'.cbar
        /\ lastFill'.price = lastFill'.cprice
        /\ lastFill'.comm = Abs(lastFill'.size) * lastFill'.price * contract_multiplier * CommNum ]_vars

\* sum of net_pnl over the trade ledger
RECURSIVE SumNetPnl(_)
SumNetPnl(h) == IF h = <<>> THEN 0 ELSE Head(h).net_pnl + SumNetPnl(Tail(h))

\* the run may end after any next(): metrics.final_value = broker.getvalue()
RunMayEnd == pc = "broker"

\* C11 (as stated): at the end of every run, even with a position still open,
\* the ledger's net_pnl sums to final_value - initial_cash.
C11_PnlReconciles ==
  RunMayEnd => SumNetPnl(trade_history) = BrokerValue - initial_cash

\* requests whose strategy reaches engine.run
ReachesEngine == rreq.code \in {"none", "valid", "falsy_class", "not_strategy"}

\* C12: a non-empty series shorter than slow_period + 5 yields InsufficientData
\* with required = slow_period + 5 and available = its length; an empty or
\* missing series yields an error.
C12_InsufficientData ==
  rout # NoOutcome /\ ReachesEngine =>
    /\ (rreq.df >= 1 /\ rreq.df < SlowOf(rreq) + 5 =>
          /\ rout.kind = "error" /\ rout.error = "InsufficientData"
          /\ rout.required = SlowOf(rreq) + 5 /\ rout.available = rreq.df)
    /\ (rreq.df <= 0 => rout.kind = "error")
C12_Witness == rout.error = "InsufficientData" /\ rout.available = rout.required - 1

\* C13: every run returns a complete result or an error, never an uncaught exception.
C13_NoUncaughtFault ==
  rout # NoOutcome => rout.kind \in {"result", "error"}

\* C14: an invalid supplied strategy yields an InvalidStrategy error before
\* anything is executed.
C14_InvalidStrategyRejected ==
  rout # NoOutcome /\ rreq.code \notin {"none", "valid"} =>
    /\ rout.kind = "error" /\ rout.error = "InvalidStrategy"
    /\ rout.strategy = "none" /\ ~rout.fetched

\* the spec's period return: 0 at t = 1 and when equity[t-1] is zero
ClaimedRet(vals, t) ==
  IF t = 1 \/ vals[t - 1] = 0 THEN FInt(0)
  ELSE FAdd(Frac(vals[t], vals[t - 1]), FInt(-1))
RECURSIVE Compounded(_, _, _)
Compounded(init, vals, t) ==
  IF t = 0 THEN FInt(init)
  ELSE FMul(Compounded(init, vals, t - 1), FAdd(FInt(1), ClaimedRet(vals, t)))

\* C16: the run yields an equity curve with one point per bar, in bar order;
\* point t has period return equity[t]/equity[t-1]-1 (0 at t = 1 and when
\* equity[t-1] is zero) and value initial_cash * prod (1 + return)
C16_EquityCurve ==
  cvOut # NoCurveOut =>
    /\ cvOut.kind = "result"
    /\ Len(cvOut.points) = Len(cvIn.vals)
    /\ \A t \in 1..Len(cvIn.vals) :
         /\ cvOut.points[t].ret = ClaimedRet(cvIn.vals, t)
         /\ cvOut.points[t].value = Compounded(cvIn.init, cvIn.vals, t)

\* metrics of BacktestEngine.run: win_rate = won_trades / total_trades * 100,
\* or 0 when total_trades = 0
WinRate(won, total) == IF total > 0 THEN Frac(won * 100, total) ELSE FInt(0)

\* C17: at the end of a run total_trades (TradeAnalyzer total.total) equals
\* the number of Trade records of the ledger, which is won + lost, and
\* win_rate = won / (number of records) * 100, or 0 when there is none
C17_TradeStats ==
  RunMayEnd =>
    /\ taTotal = Len(trade_history)
    /\ taWon + taLost = Len(trade_history)
    /\ WinRate(taWon, taTotal) = WinRate(taWon, Len(trade_history))

\* C18: on a constant-price series no crossover occurs at any bar, no order
\* and no trade happen, every equity-curve point equals initial_cash, and
\* sharpe_ratio and max_drawdown are 0
C18_ConstantSeries ==
  /\ cross = 0
  /\ nextRef = 1 /\ trade_history = <<>> /\ taTotal = 0
  /\ \A t \in 1..Len(tr_values) : tr_values[t] = initial_cash
  /\ LET ec == EquityCurveOutcome([init |-> initial_cash, vals |-> tr_values])
     IN /\ ec.kind = "result"
        /\ \A t \in 1..Len(tr_values) : ec.points[t].value = FInt(initial_cash)
  /\ SharpeSigns(TimeReturns(initial_cash, tr_values).rets) = {0}
  /\ Len(DrawDowns(tr_values)) = Len(tr_values)
  /\ \A t \in 1..Len(tr_values) : DrawDowns(tr_values)[t] = FInt(0)
C18_Witness == RunMayEnd /\ bar = MaxBars /\ Len(tr_values) = MaxBars

\* the data of scenario C has ended
ScEnd == RunMayEnd /\ bar = MaxBars

\* C19: in scenario C the run yields exactly one trade, long, closed by the stop
C19_ScenarioC ==
  ScEnd =>
    /\ Len(trade_history) = 1
    /\ trade_history[1].direction = "long"
    /\ trade_history[1].exit_reason = "long-stop-exit"
\* the fast / slow periods the trial's strategy runs with (params defaults
\* for absent keys)
EffFast(p) == IF "fast_period" \in DOMAIN p THEN p["fast_period"] ELSE FastPeriod
EffSlow(p) == IF "slow_period" \in DOMAIN p THEN p["slow_period"] ELSE SlowPeriod

\* C20: from initial_params with fast_period < slow_period (params defaults
\* for absent keys), a trial is initial_params with 1 to 3 distinct keys of
\* param_ranges replaced by values of their ranges, slow_period possibly
\* repaired to fast_period + 5; the trial runs with fast_period < slow_period
C20_Candidates ==
  oTrial # NoTrial /\ EffFast(oBase) < EffSlow(oBase) =>
    /\ oKeys \subseteq ParamKeys /\ Cardinality(oKeys) \in 1..3
    /\ DOMAIN oTrial = DOMAIN oBase \cup oKeys
    /\ \A k \in DOMAIN oTrial \ {"slow_period"} :
         IF k \in oKeys THEN oTrial[k] \in ParamRanges[k] ELSE oTrial[k] = oBase[k]
    /\ "slow_period" \in DOMAIN oTrial =>
         \/ IF "slow_period" \in oKeys THEN oTrial["slow_period"] \in ParamRanges["slow_period"]
            ELSE oTrial["slow_period"] = oBase["slow_period"]
         \/ /\ "fast_period" \in DOMAIN oTrial
            /\ oTrial["slow_period"] = oTrial["fast_period"] + 5
    /\ EffFast(oTrial) < EffSlow(oTrial)
\* a trial whose mutation made fast_period >= slow_period, repaired
C20_Witness == /\ oTrial # NoTrial /\ EffFast(oBase) < EffSlow(oBase)
               /\ {"fast_period", "slow_period"} \subseteq DOMAIN oTrial
               /\ oTrial["slow_period"] = oTrial["fast_period"] + 5
               /\ oTrial["slow_period"] \notin ParamRanges["slow_period"]

\* an order notification of a failed order is processed
FailedOrderNotified ==
  /\ Notify
  /\ Head(notifs).kind = "order"
  /\ Head(notifs).status \in {"Canceled", "Margin", "Rejected"}

\* C28: an order resolving as Canceled, Margin or Rejected leaves the position
\* (and cash) as it was, and notify_order clears self.order, so next() decides
\* again instead of returning early
C28_FailedOrder ==
  [][ /\ (/\ BrokerNext
          /\ \E i \in 1..Len(notifs') : notifs'[i].status \in {"Canceled", "Margin", "Rejected"})
         => pos' = pos /\ cash' = cash /\ posPrice' = posPrice
      /\ (FailedOrderNotified => pos' = pos /\ order' = NoOrder) ]_vars
C28_Witness == pos # 0 /\ pc = "next" /\ \E i \in 1..Len(notifs) : notifs[i].status = "Margin"

\* C29: with a Long open and no death cross, next() raises stop_price to the
\* candidate close - ATR * atr_multiplier when it is higher, also when the
\* stop is exactly 0
C29_ZeroStopTrails ==
  [][ NextStep /\ order = NoOrder /\ pos > 0 /\ cross >= 0 /\ ~stopNone /\ stop_price = 0
        /\ cl - atr * atr_multiplier > 0
      => stop_price' = cl - atr * atr_multiplier ]_vars

\* C30: each Trade record carries the entry reason of the decision whose order
\* opened the position and the exit reason of the decision whose order closed
\* it, the direction of the opening side, and a positive size
C30_TradeReasons ==
  [][ TradeAppended =>
        LET r == trade_history'[Len(trade_history')]
        IN /\ r.entry_reason = EntryReasonOf(gOpen.er)
           /\ r.exit_reason = ExitReasonOf(gClose)
           /\ r.direction = IF gOpen.size > 0 THEN "long" ELSE "short"
           /\ r.size > 0 ]_vars
C30_Witness == /\ Len(trade_history) >= 2
               /\ trade_history[1].direction # trade_history[Len(trade_history)].direction
               /\ \E i \in 1..Len(notifs) : notifs[i].status = "Margin"

\* C21: in parallel mode, once a collected trial has a return_rate above
\* target_return (so the best so far exceeds it), optimize collects no further
\* result before it returns.
C21_EarlyStop ==
  (xMode = "parallel" /\ xPhase = "returned")
    => \A k \in 1..xColl : xRet[xDone[k]] > Target => xColl = k

\* C22: in sequential mode optimize runs the trials in generation order until
\* one takes the best return_rate above target_return or the trials run out,
\* and starts no trial after that one.
C22_SeqOrder ==
  xMode = "sequential" =>
    /\ xPhase # "raised"
    /\ xPhase = "returned" => xStarted = xN \/ xBest.ret > Target
    /\ xBest.ret > Target => xStarted = xBest.idx

\* trial i fails: its run raises, or its backtest gives an "error" result
TrialFails(i) ==
  IF xMode = "parallel"
  THEN WrapperOutcome(xRet[i]).kind = "raise" \/ WrapperOutcome(xRet[i]).ret = NegInf
  ELSE SeqOutcome(xRet[i]).kind # "ok"
\* C23: no failing trial is propagated out of optimize, in either mode, and if
\* every trial fails optimize returns (initial_params.copy(), None).
C23_FailureAbsorbed ==
  /\ xPhase # "raised"
  /\ (xPhase = "returned" /\ \A i \in 1..xN : TrialFails(i)) => xBest.idx = 0 /\ ~xBest.result

\* number of trial results optimize has seen, and the trial seen k-th
NSeen == IF xMode = "parallel" THEN xColl ELSE xStarted
SeenAt(k) == IF xMode = "parallel" THEN xDone[k] ELSE k
\* the return_rate optimize scores trial i with (NegInf when it fails)
RetOf(i) ==
  LET o == IF xMode = "parallel" THEN WrapperOutcome(xRet[i]) ELSE SeqOutcome(xRet[i])
  IN IF o.kind = "ok" THEN o.ret ELSE NegInf
\* C24: optimize returns (it raises in neither mode); when no seen trial
\* scores above -inf it returns initial_params and None; otherwise it returns
\* the seen trial with the highest return_rate, the first seen among equals.
C24_BestOfSeen ==
  /\ xPhase # "raised"
  /\ xPhase = "returned" =>
       IF \A k \in 1..NSeen : RetOf(SeenAt(k)) = NegInf
       THEN xBest.idx = 0 /\ ~xBest.result
       ELSE \E k \in 1..NSeen :
              /\ SeenAt(k) = xBest.idx /\ RetOf(xBest.idx) = xBest.ret /\ xBest.result
              /\ \A j \in 1..NSeen : /\ RetOf(SeenAt(j)) <= xBest.ret
                                     /\ j < k => RetOf(SeenAt(j)) < xBest.ret

ScDTrials == 5
ScDRets == {NegInf, 5, 10}
ScDInit ==
  /\ BtIdle /\ rreq = NoRequest /\ rout = NoOutcome /\ CurveIdle /\ OptIdle
  /\ xMode = "parallel" /\ xN = ScDTrials /\ xRet \in [1..xN -> ScDRets]
  /\ xDone = <<>> /\ xColl = 0 /\ xBest = InitialBest /\ xPhase = "start" /\ xStarted = 0
  /\ ParamIdle
ScDNext == ExecStart \/ WorkerFinish \/ Collect \/ CollectExhausted \/ Shutdown
ScDSpec == ScDInit /\ [][ScDNext]_vars
\* C26: in scenario D all 5 trials complete and are collected, and best_result
\* is the trial with the highest return_rate among the 5.
C26_ScenarioD ==
  xPhase = "returned" =>
    /\ Len(xDone) = xN /\ xColl = xN
    /\ (\E i \in 1..xN : xRet[i] # NegInf) =>
         xBest.result /\ xBest.idx \in 1..xN /\ \A i \in 1..xN : xRet[i] <= xBest.ret

\* ---------------------------------------------- trial parameter objects
\* The dicts of StrategyOptimizer.optimize as objects: object 0 is
\* initial_params, object i (1..PTrials) the trial_params of trial i, object
\* PTrials + i the copy of it that executor.submit pickles into the worker
\* running trial i. A dict is [fast |-> fast_period, cm |-> contract_multiplier]
\* (cm: "absent", "float" or "int"; values are scalars, so copy() shares nothing).
PTrials == 3
\* the fast_period values random.choice may write into a trial
PFastChoices == {5, 29}
NoDict == [fast |-> 0, cm |-> "none"]
\* variant: trial_params = initial_params (no copy)
TrialObj_Alias(i) == 0
\* trial_params = initial_params.copy(): a fresh dict per trial
TrialObj(i) == i
\* the unpickled copy of the trial's args in the pool worker
WorkerObj(i) == PTrials + i
\* engine.py:72-73: if 'contract_multiplier' in strategy_params:
\*   strategy_params['contract_multiplier'] = int(...)
RunWrite(d) == IF d.cm = "absent" THEN d ELSE [d EXCEPT !.cm = "int"]
\* the call engine.run(...) of _run_backtest_wrapper binds its arguments
WrapperCallBinds == TrialArgsLen = WrapperUnpackLen /\ WrapperKwargs \subseteq EngineRunParams
\* "_, _, params, _, _, _ = args" and the call engine.run(...) of the sequential loop
SeqCallBinds == TrialArgsLen = SeqUnpackLen /\ SeqKwargs \subseteq EngineRunParams

PFrame == UNCHANGED <<btVars, rreq, rout, cvIn, cvOut, oBase, oKeys, oTrial, xVars, pMode, pN, pBase>>

ParamInit ==
  /\ BtIdle /\ rreq = NoRequest /\ rout = NoOutcome /\ CurveIdle /\ OptIdle /\ XIdle
  /\ pMode \in {"parallel", "sequential"}
  /\ pN \in 0..PTrials
  /\ pBase \in {[fast |-> 10, cm |-> c] : c \in {"absent", "float", "int"}}
  /\ pStore = [o \in 0..(2 * PTrials) |-> IF o = 0 THEN pBase ELSE NoDict]
  /\ pObj = <<>> /\ pGen = <<>> /\ pRun = <<>> /\ pPhase = "gen"

\* one iteration of the generation loop: copy initial_params, then write the
\* mutated keys into the copy (trial_params[key] = random.choice(...));
\* fastPicked: random.sample picked fast_period among the 1 to 3 keys
PGenerate ==
  /\ pPhase = "gen" /\ Len(pObj) < pN
  /\ LET i == Len(pObj) + 1
         o == TrialObj(i)
     IN \E fastPicked \in BOOLEAN, v \in PFastChoices :
          LET d == IF fastPicked THEN [pStore[0] EXCEPT !.fast = v] ELSE pStore[0]
          IN /\ pStore' = [pStore EXCEPT ![o] = d]
             /\ pObj' = Append(pObj, o)
             /\ pGen' = Append(pGen, d)
             /\ pRun' = Append(pRun, "pending")
  /\ UNCHANGED pPhase
  /\ PFrame

\* the trials list is complete: if parallel / else
PDispatch ==
  /\ pPhase = "gen" /\ Len(pObj) = pN
  /\ pPhase' = "run"
  /\ UNCHANGED <<pStore, pObj, pGen, pRun>>
  /\ PFrame

\* executor.submit(_run_backtest_wrapper, args): the args are pickled
PSubmit ==
  /\ pMode = "parallel" /\ pPhase = "run"
  /\ \E i \in 1..Len(pObj) :
       /\ pRun[i] = "pending"
       /\ pStore' = [pStore EXCEPT ![WorkerObj(i)] = pStore[pObj[i]]]
       /\ pRun' = [pRun EXCEPT ![i] = "submitted"]
  /\ UNCHANGED <<pObj, pGen, pPhase>>
  /\ PFrame

\* a pool worker runs _run_backtest_wrapper on its copy; a raise is
\* "Trial failed" in the as_completed loop
PWorkerRun ==
  /\ pMode = "parallel" /\ pPhase = "run"
  /\ \E i \in 1..Len(pObj) :
       /\ pRun[i] = "submitted"
       /\ IF WrapperCallBinds
          THEN /\ pStore' = [pStore EXCEPT ![WorkerObj(i)] = RunWrite(pStore[WorkerObj(i)])]
               /\ pRun' = [pRun EXCEPT ![i] = "done"]
          ELSE /\ pRun' = [pRun EXCEPT ![i] = "failed"]
               /\ UNCHANGED pStore
  /\ UNCHANGED <<pObj, pGen, pPhase>>
  /\ PFrame

\* leaving "with ProcessPoolExecutor()" after every trial has finished, then return
PReturn ==
  /\ pMode = "parallel" /\ pPhase = "run"
  /\ \A i \in 1..Len(pObj) : pRun[i] \in {"done", "failed"}
  /\ pPhase' = "returned"
  /\ UNCHANGED <<pStore, pObj, pGen, pRun>>
  /\ PFrame

\* one iteration of the sequential loop: engine.run on the trial's own dict
PSeqRun ==
  /\ pMode = "sequential" /\ pPhase = "run"
  /\ \E i \in 1..Len(pObj) :
       /\ pRun[i] = "pending"
       /\ \A j \in 1..(i - 1) : pRun[j] # "pending"
       /\ IF SeqCallBinds
          THEN /\ pStore' = [pStore EXCEPT ![pObj[i]] = RunWrite(pStore[pObj[i]])]
               /\ pRun' = [pRun EXCEPT ![i] = "done"]
               /\ UNCHANGED pPhase
          ELSE /\ pRun' = [pRun EXCEPT ![i] = "failed"]
               /\ pPhase' = "raised"
               /\ UNCHANGED pStore
  /\ UNCHANGED <<pObj, pGen>>
  /\ PFrame

\* the sequential loop runs out of trials: return
PSeqEnd ==
  /\ pMode = "sequential" /\ pPhase = "run"
  /\ \A i \in 1..Len(pObj) : pRun[i] # "pending"
  /\ pPhase' = "returned"
  /\ UNCHANGED <<pStore, pObj, pGen, pRun>>
  /\ PFrame

ParamNext == PGenerate \/ PDispatch \/ PSubmit \/ PWorkerRun \/ PReturn \/ PSeqRun \/ PSeqEnd
ParamSpec == ParamInit /\ [][ParamNext]_vars

\* C27: trials share no mutable state: each trial has its own parameter dict,
\* distinct from initial_params and from every other trial's; no trial's run
\* changes initial_params or another trial's dict; each worker runs on a copy
\* of its own trial's parameters, whatever the order the trials run in; and a
\* parallel optimize returns only after every trial's run has finished.
C27_NoSharedState ==
  /\ \A i \in 1..Len(pObj) :
       /\ pObj[i] # 0
       /\ \A j \in 1..Len(pObj) : j # i => pObj[i] # pObj[j]
  /\ pStore = <<>> \/ pStore[0] = pBase
  /\ \A i \in 1..Len(pObj) :
       \/ pStore[pObj[i]] = pGen[i]
       \/ pMode = "sequential" /\ pRun[i] = "done" /\ pStore[pObj[i]] = RunWrite(pGen[i])
  /\ \A i \in 1..Len(pObj) :
       pMode = "parallel" /\ pRun[i] # "pending" =>
         pStore[WorkerObj(i)] \in {pGen[i], RunWrite(pGen[i])}
  /\ pMode = "parallel" /\ pPhase = "returned" =>
       \A i \in 1..Len(pObj) : pRun[i] \in {"done", "failed"}
C27_Witness == /\ pMode = "parallel" /\ pPhase = "returned" /\ pN = PTrials
               /\ pBase.cm = "float" /\ pGen[1].fast # pGen[2].fast

====
